---- MODULE Spec2Model ----
(***************************************************************************)
(* Model of process-inbound-email: the OpenAI assistant client             *)
(* (src/src/openaiassistant.go, package main copy, lines 474-911), the     *)
(* email body parser (src/unnamed/part_000, ParseEmailBody) and the Lambda *)
(* handler that joins them (src/unnamed/part_001, handleRequest, lines     *)
(* 123-208).                                                               *)
(*                                                                         *)
(* One Assistant session is modelled.  Every HTTP exchange is one step:    *)
(* the request is appended to reqs and the server's answer is drawn from   *)
(* a bounded set of responses.  A call of AddMessageToThread walks through *)
(* pc = "post" -> "run" -> "poll" -> "list" and comes back to "ready"      *)
(* with its return values in ret; no other call can start in between.      *)
(***************************************************************************)
EXTENDS Integers, Sequences, FiniteSets, TLC

VARIABLES
    pc,            \* position of the caller: "new", "nil", "ready", "post", "run", "poll", "list"
    call,          \* the exported method that is executing or executed last
    args,          \* arguments of the NewAssistant call, while it is the last call
    threadID,      \* Assistant.threadID
    runID,         \* Assistant.runID
    assistantID,   \* Assistant.assistantID
    silenceErrors, \* Assistant.silenceErrors
    i,             \* loop counter of pollThreadForReply
    reqs,          \* HTTP requests issued by the current call, in order
    waits,         \* number of time.Sleep calls made by the current call
    logs,          \* number of log lines written by the current call
    polls,         \* how many polls of the current call were answered in which way
    resp,          \* the answer to the request of a call that makes one request (NewAssistant, GetLastMessage)
    newest,        \* what the list-messages answer of the current call shows of the newest message
    ret,           \* return values of the last call that returned
    prev,          \* outcome of the AddMessageToThread call before the last one
    ncalls,        \* number of calls started on the session
    started,       \* the run the server last started for the session: in which call, on which thread, under which id
    email,         \* the raw message handed to ParseEmailBody
    parsed,        \* what ParseEmailBody returned for it
    other,         \* a second session, set aside while this one takes its step
    turn,          \* of two sessions in step: "lead", "swap", "follow"
    input,         \* the operation the leading session took and what the server answered
    batch,         \* sesEvent.Records: the message keys of the notifications, in order
    env,           \* which of the two environment variables are set
    rec,           \* handleRequest: the record the loop stands at
    hpc,           \* handleRequest: "start", "loop", "fetch", "config", "assistant", "converse", "done"
    events,        \* what handleRequest did for which record, in order
    result         \* how handleRequest ended

sessionVars == <<pc, call, args, threadID, runID, assistantID, silenceErrors, i,
                 reqs, waits, logs, polls, resp, newest, ret, prev, ncalls, started>>

mailVars == <<email, parsed>>

pairVars == <<other, turn, input>>

handlerVars == <<batch, env, rec, hpc, events, result>>

vars == <<sessionVars, mailVars, pairVars, handlerVars>>

----------------------------------------------------------------------------
(* Bounds of the model *)

MaxCalls  == 2     \* calls made on one session
MaxPairCalls == 1  \* calls made on each of two sessions that are compared
MaxOlder  == 1     \* messages that follow the newest one in a list-messages response
MaxBlocks == 2     \* content blocks in one message

----------------------------------------------------------------------------
(* Program constants *)

SilenceErrors  == 1      \* 1 << 0
RecallThreadID == 2      \* 1 << 1
StatusOK       == 200    \* http.StatusOK
Retries        == 3      \* pollThreadForReply(3, 4): retries
RetryWait      == 4      \* pollThreadForReply(3, 4): retryWait, seconds

NoErr == "nil"

----------------------------------------------------------------------------
(* HTTP responses.  kind "neterr": httpClient.Do failed; "readerr":        *)
(* io.ReadAll of the body failed; "http": a status code and a body.  A     *)
(* body is either not decodable as JSON (json = FALSE) or a JSON object;   *)
(* json.Unmarshal leaves the fields an object does not carry at their zero *)
(* value.                                                                  *)

Body(json, id, status, data, message) ==
    [json |-> json, id |-> id, status |-> status, data |-> data, message |-> message]

Garbage       == Body(FALSE, "", "", <<>>, "")
ErrJson       == Body(TRUE, "", "", <<>>, "boom")
ThreadJson(t) == Body(TRUE, t, "", <<>>, "")
RunJson(r)    == Body(TRUE, r, "queued", <<>>, "")
PollJson(s)   == Body(TRUE, "r", s, <<>>, "")
ListJson(d)   == Body(TRUE, "", "", d, "")

Rsp(kind, code, body) == [kind |-> kind, code |-> code, body |-> body]

NetErr     == Rsp("neterr", 0, Garbage)
ReadErr    == Rsp("readerr", 0, Garbage)
Http(c, b) == Rsp("http", c, b)
NoRsp      == Rsp("none", 0, Garbage)

Codes == {200, 201, 500}

SeqsUpTo(S, n) == UNION {[1..k -> S] : k \in 0..n}

TextBlock(v) == [type |-> "text", value |-> v]
ImageBlock   == [type |-> "image_file", value |-> ""]
Blocks       == {TextBlock("ok"), TextBlock(""), ImageBlock}
Message(c)   == [role |-> "assistant", content |-> c]
Messages     == {Message(c) : c \in SeqsUpTo(Blocks, MaxBlocks)}
OlderMessage == Message(<<TextBlock("old")>>)
\* newest first: any newest message, followed by up to MaxOlder older ones
MessageLists ==
    {<<>>} \cup {<<m>> \o [k \in 1..n |-> OlderMessage] : m \in Messages, n \in 0..MaxOlder}

CreateResponses ==
    {NetErr, ReadErr} \cup {Http(c, b) : c \in Codes, b \in {Garbage, ErrJson, ThreadJson("t1")}}
PostResponses ==
    {NetErr, ReadErr} \cup {Http(c, b) : c \in Codes, b \in {Garbage, ErrJson}}
\* the server names the run it starts after the call that asked for it
RunIDs == [k \in 1..3 |-> <<"run_1", "run_2", "run_3">>[k]]
FreshRun(n) == IF n \in DOMAIN RunIDs THEN RunIDs[n] ELSE "run_n"
RunResponses(n) ==
    {NetErr, ReadErr} \cup {Http(c, b) : c \in Codes, b \in {Garbage, ErrJson, RunJson(FreshRun(n))}}
RunStatuses == {"queued", "in_progress", "failed", "completed"}
PollResponses ==
    {NetErr, ReadErr} \cup {Http(c, b) : c \in {201, 500}, b \in {Garbage, ErrJson}}
        \cup {Http(201, PollJson("completed")), Http(StatusOK, Garbage)}
        \cup {Http(StatusOK, PollJson(s)) : s \in RunStatuses}
ListResponses ==
    {NetErr, ReadErr} \cup {Http(c, b) : c \in {201, 500}, b \in {Garbage, ErrJson}}
        \cup {Http(201, ListJson(<<Message(<<TextBlock("ok")>>)>>)), Http(StatusOK, Garbage)}
        \cup {Http(StatusOK, ListJson(d)) : d \in MessageLists}

InitialThreadIDs == {"", "t_123"}

----------------------------------------------------------------------------
(* Requests *)

Req(op, t, r) == [op |-> op, thread |-> t, run |-> r]

Count(op) == Cardinality({k \in 1..Len(reqs) : reqs[k].op = op})

----------------------------------------------------------------------------
(* logError: the line is written unless the session silences errors *)

\* mutant: nothing is ever logged
logError_never(l, message) == l

logError(l, message) ==
    IF silenceErrors THEN l ELSE l + 1

NoLogs == 0

NoPolls == [net |-> 0, nonok |-> 0, bad |-> 0, pending |-> 0, failed |-> 0, completed |-> 0]

Ret(op, reply, err, stage) == [op |-> op, reply |-> reply, err |-> err, stage |-> stage]

NoRet == Ret("none", "", NoErr, "none")

NoPrev == [stage |-> "none", err |-> NoErr]

NoArgs == [opts |-> 0, tid |-> ""]

\* The newest message as the server sent it: pos is the place of its first
\* text-typed content block (0: there is none, or no list arrived) and text
\* the text of that block.
TextIdx(c) == {k \in 1..Len(c) : c[k].type = "text"}
FirstTextIdx(c) == CHOOSE k \in TextIdx(c) : \A m \in TextIdx(c) : k <= m
ListFetched(r) == r.kind = "http" /\ r.code = 200 /\ r.body.json
NoNewest == [pos |-> 0, text |-> ""]

\* The run the server started: the call that asked for it, the thread it
\* runs on and the id the server gave it in its answer.
NoRun == [by |-> 0, on |-> "", id |-> ""]
RunStarted(r) == r.kind = "http" /\ r.code = 200 /\ r.body.json
Newest(r) ==
    IF ListFetched(r) /\ Len(r.body.data) > 0 /\ TextIdx(r.body.data[1].content) # {}
    THEN [pos  |-> FirstTextIdx(r.body.data[1].content),
          text |-> r.body.data[1].content[FirstTextIdx(r.body.data[1].content)].value]
    ELSE NoNewest

----------------------------------------------------------------------------
InitSession ==
    /\ pc = "new"
    /\ call = "none"
    /\ args = NoArgs
    /\ threadID = ""
    /\ runID = ""
    /\ assistantID = ""
    /\ silenceErrors = FALSE
    /\ i = 0
    /\ reqs = <<>>
    /\ waits = 0
    /\ logs = NoLogs
    /\ polls = NoPolls
    /\ resp = NoRsp
    /\ newest = NoNewest
    /\ ret = NoRet
    /\ prev = NoPrev
    /\ ncalls = 0
    /\ started = NoRun

\* the same, as the record of a session that is set aside
Unborn ==
    [pc |-> "new", call |-> "none", args |-> NoArgs, threadID |-> "", runID |-> "",
     assistantID |-> "", silenceErrors |-> FALSE, i |-> 0, reqs |-> <<>>, waits |-> 0,
     logs |-> NoLogs, polls |-> NoPolls, resp |-> NoRsp, newest |-> NoNewest,
     ret |-> NoRet, prev |-> NoPrev, ncalls |-> 0, started |-> NoRun]

NoInput == [op |-> "none", opts |-> 0, tid |-> "", r |-> NoRsp]

----------------------------------------------------------------------------
(* NewAssistant, lines 578-598, and initialiseThread, lines 625-668 *)

\* configOptions & flag != 0, for the one-bit flags 1 and 2
HasFlag(opts, flag) == (opts \div flag) % 2 = 1

\* mutant: the flag alone decides, an empty id is adopted too
recallsThread_ignoresEmptyId(opts, tid) == HasFlag(opts, RecallThreadID)

\* line 587: the supplied thread is adopted without a request
recallsThread(opts, tid) == HasFlag(opts, RecallThreadID) /\ tid # ""

\* mutant: every 2xx status passes
isOK_any2xx(code) == code \div 100 = 2

\* lines 650, 711, 771, 823, 881: resp.StatusCode != http.StatusOK
isOK(code) == code = StatusOK

\* mutant: the thread id is cleared when the request is made and set again
\* only on success
initialiseThreadResult_clearsOnFailure(r) ==
    IF r.kind = "http" /\ isOK(r.code) /\ r.body.json
    THEN [err |-> NoErr, set |-> TRUE, id |-> r.body.id, log |-> ""]
    ELSE [err |-> "thread could not be initialised", set |-> TRUE, id |-> "",
          log |-> "Thread initialization failed with status"]

\* initialiseThread: the error it returns, the thread id it stores and the
\* line it logs, from the answer to POST /v1/threads
initialiseThreadResult(r) ==
    IF r.kind = "neterr" THEN
        [err |-> "error sending request", set |-> FALSE, id |-> "",
         log |-> "Error sending request to initialize thread"]
    ELSE IF r.kind = "readerr" THEN
        [err |-> "failed to read response body", set |-> FALSE, id |-> "",
         log |-> "Failed to read response body for thread initialization"]
    ELSE IF ~isOK(r.code) THEN
        IF ~r.body.json
        THEN [err |-> "thread initialization failed with status", set |-> FALSE, id |-> "",
              log |-> "Non-OK status, but failed to unmarshal error response for thread init"]
        ELSE [err |-> "thread could not be initialised", set |-> FALSE, id |-> "",
              log |-> "Thread initialization failed with status"]
    ELSE IF ~r.body.json THEN
        [err |-> "failed to unmarshal thread response", set |-> FALSE, id |-> "",
         log |-> "Failed to unmarshal thread initialization response"]
    ELSE [err |-> NoErr, set |-> TRUE, id |-> r.body.id, log |-> ""]

NewAssistant(opts, tid, r) ==
    /\ pc = "new"
    /\ call' = "NewAssistant"
    /\ args' = [opts |-> opts, tid |-> tid]
    /\ silenceErrors' = HasFlag(opts, SilenceErrors)
    /\ assistantID' = "asst_1"
    /\ runID' = ""
    /\ UNCHANGED <<i, waits, polls, newest, prev, ncalls, started>>
    /\ IF recallsThread(opts, tid) THEN
          /\ threadID' = tid
          /\ reqs' = <<>>
          /\ resp' = NoRsp
          /\ logs' = NoLogs
          /\ ret' = Ret("NewAssistant", "", NoErr, "none")
          /\ pc' = "ready"
       ELSE
          LET res == initialiseThreadResult(r) IN
          /\ reqs' = <<Req("create", "", "")>>
          /\ resp' = r
          /\ threadID' = IF res.set THEN res.id ELSE ""
          /\ logs' = IF res.err = NoErr \/ silenceErrors' THEN NoLogs
                     ELSE NoLogs + 1
          /\ IF res.err = NoErr
             THEN /\ ret' = Ret("NewAssistant", "", NoErr, "none")
                  /\ pc' = "ready"
             ELSE /\ ret' = Ret("NewAssistant", "", "failed to initialize thread", "init")
                  /\ pc' = "nil"

----------------------------------------------------------------------------
(* AddMessageToThread, lines 672-733: the entry check and the post *)

\* lines 698-719: the error the post step returns, and the line it logs
postResult(r) ==
    IF r.kind = "neterr" THEN
        [err |-> "error sending request",
         log |-> "Error sending request to add message to thread"]
    ELSE IF r.kind = "readerr" THEN
        [err |-> "failed to read response body",
         log |-> "Failed to read response body for adding message"]
    ELSE IF ~isOK(r.code) THEN
        IF ~r.body.json
        THEN [err |-> "add message failed with status",
              log |-> "Non-OK status, but failed to unmarshal error response for add message"]
        ELSE [err |-> "failed to add message",
              log |-> "Error when attempting to publish message to OpenAI thread"]
    ELSE [err |-> NoErr, log |-> ""]

\* what a call leaves behind for the next one
Outcome(rt) == IF rt.op = "AddMessageToThread"
               THEN [stage |-> rt.stage, err |-> rt.err] ELSE prev

\* mutant: the error of the post is dropped and the thread is run anyway
afterPost_runsAnyway(err) == "run"

\* mutant: a session that silences errors goes on after a failed post
afterPost_silencedRunsOn(err) == IF err = NoErr \/ silenceErrors THEN "run" ELSE "ready"

\* lines 699-719: a failed post returns; the thread is run only after a post that succeeded
afterPost(err) == IF err = NoErr THEN "run" ELSE "ready"

\* mutant: the call does not look at the thread id
notInitialised_never(tid) == FALSE

\* lines 673-675: a session without a thread id is refused
notInitialised(tid) == tid = ""

AddMessageToThread(r) ==
    /\ pc = "ready"
    /\ ncalls < MaxCalls
    /\ ncalls' = ncalls + 1
    /\ call' = "AddMessageToThread"
    /\ prev' = Outcome(ret)
    /\ i' = 0
    /\ waits' = 0
    /\ polls' = NoPolls
    /\ args' = NoArgs
    /\ newest' = NoNewest
    /\ UNCHANGED <<threadID, runID, assistantID, silenceErrors, started>>
    /\ IF notInitialised(threadID) THEN
          /\ reqs' = <<>>
          /\ resp' = NoRsp
          /\ logs' = NoLogs
          /\ ret' = Ret("AddMessageToThread", "", "thread not initialized", "uninit")
          /\ pc' = "ready"
       ELSE
          LET res == postResult(r) IN
          /\ reqs' = <<Req("post", threadID, "")>>
          /\ resp' = NoRsp
          /\ logs' = IF res.err = NoErr THEN NoLogs ELSE logError(NoLogs, res.log)
          /\ pc' = afterPost(res.err)
          /\ ret' = IF res.err = NoErr THEN NoRet
                    ELSE Ret("AddMessageToThread", "", res.err, "post")

----------------------------------------------------------------------------
(* ResetThread, lines 616-618, SetThreadID, lines 604-606, and             *)
(* SetAssistantID, lines 620-622, called on a session that exists          *)

ResetThread(r) ==
    /\ pc = "ready"
    /\ ncalls < MaxCalls
    /\ ncalls' = ncalls + 1
    /\ call' = "ResetThread"
    /\ prev' = Outcome(ret)
    /\ LET res == initialiseThreadResult(r) IN
       /\ reqs' = <<Req("create", "", "")>>
       /\ resp' = r
       /\ threadID' = IF res.set THEN res.id ELSE threadID
       /\ logs' = IF res.err = NoErr THEN NoLogs ELSE logError(NoLogs, res.log)
       /\ ret' = Ret("ResetThread", "", res.err, IF res.err = NoErr THEN "none" ELSE "init")
    /\ i' = 0
    /\ waits' = 0
    /\ polls' = NoPolls
    /\ newest' = NoNewest
    /\ args' = NoArgs
    /\ pc' = "ready"
    /\ UNCHANGED <<runID, assistantID, silenceErrors, started>>

SetThreadID(tid) ==
    /\ pc = "ready"
    /\ ncalls < MaxCalls
    /\ ncalls' = ncalls + 1
    /\ call' = "SetThreadID"
    /\ prev' = Outcome(ret)
    /\ threadID' = tid
    /\ reqs' = <<>>
    /\ resp' = NoRsp
    /\ logs' = NoLogs
    /\ ret' = Ret("SetThreadID", "", NoErr, "none")
    /\ i' = 0
    /\ waits' = 0
    /\ polls' = NoPolls
    /\ newest' = NoNewest
    /\ args' = NoArgs
    /\ pc' = "ready"
    /\ UNCHANGED <<runID, assistantID, silenceErrors, started>>

SetAssistantID(id) ==
    /\ pc = "ready"
    /\ ncalls < MaxCalls
    /\ ncalls' = ncalls + 1
    /\ call' = "SetAssistantID"
    /\ prev' = Outcome(ret)
    /\ assistantID' = id
    /\ reqs' = <<>>
    /\ resp' = NoRsp
    /\ logs' = NoLogs
    /\ ret' = Ret("SetAssistantID", "", NoErr, "none")
    /\ i' = 0
    /\ waits' = 0
    /\ polls' = NoPolls
    /\ newest' = NoNewest
    /\ args' = NoArgs
    /\ pc' = "ready"
    /\ UNCHANGED <<threadID, runID, silenceErrors, started>>

----------------------------------------------------------------------------
(* runThread, lines 737-789, and its use at lines 721-725 *)

\* what runThread returns, the run id it stores and the line it logs
runThreadResult(r) ==
    IF r.kind = "neterr" THEN
        [ok |-> FALSE, id |-> "", log |-> "Error sending request to run thread"]
    ELSE IF r.kind = "readerr" THEN
        [ok |-> FALSE, id |-> "", log |-> "Failed to read response body for running thread"]
    ELSE IF ~isOK(r.code) THEN
        IF ~r.body.json
        THEN [ok |-> FALSE, id |-> "",
              log |-> "Non-OK status, but failed to unmarshal error response for run thread"]
        ELSE [ok |-> FALSE, id |-> "",
              log |-> "Error when attempting to run OpenAI assistant on thread"]
    ELSE IF ~r.body.json THEN
        [ok |-> FALSE, id |-> "", log |-> "Failed to unmarshal run thread response"]
    ELSE [ok |-> TRUE, id |-> r.body.id, log |-> ""]

\* mutant: the result of runThread is not looked at
afterRun_pollsAnyway(ok) == "poll"

\* lines 722-728: polling starts only when runThread returned true
afterRun(ok) == IF ok THEN "poll" ELSE "ready"

\* mutant: the address is built from the run id the session holds
runRequest_byRunID(tid, rid) == Req("run", rid, "")

\* lines 747-748: POST /v1/threads/{threadID}/runs
runRequest(tid, rid) == Req("run", tid, "")

runThread(r) ==
    /\ pc = "run"
    /\ LET res == runThreadResult(r) IN
       /\ reqs' = Append(reqs, runRequest(threadID, runID))
       /\ runID' = IF res.ok THEN res.id ELSE runID
       /\ started' = IF RunStarted(r)
                     THEN [by |-> ncalls, on |-> threadID, id |-> r.body.id]
                     ELSE started
       /\ logs' = IF res.ok THEN logs ELSE logError(logs, res.log)
       /\ pc' = afterRun(res.ok)
       /\ ret' = IF res.ok THEN ret
                 ELSE Ret("AddMessageToThread", "",
                          "failed to run thread after adding message", "run")
    /\ UNCHANGED <<call, args, threadID, assistantID, silenceErrors, i, waits,
                   polls, resp, newest, prev, ncalls>>

----------------------------------------------------------------------------
(* pollThreadForReply, lines 793-853: one iteration of the loop *)

\* mutant: i < retries
loopContinues_strict(j, retries) == j < retries

\* mutant: one more turn is allowed
loopContinues_oneMore(j, retries) == j <= retries + 1

\* line 794: for i := 0; i <= retries; i++
loopContinues(j, retries) == j <= retries

\* How the server answered a poll: "net" no answer (transport error),
\* "nonok" a status other than 200, "bad" an unreadable or undecodable body,
\* "failed" / "completed" / "pending" the run status of a 200 answer.
AnswerClass(r) ==
    IF r.kind = "neterr" THEN "net"
    ELSE IF r.kind = "readerr" THEN "bad"
    ELSE IF r.code # 200 THEN "nonok"
    ELSE IF ~r.body.json THEN "bad"
    ELSE IF r.body.status \in {"failed", "completed"} THEN r.body.status
    ELSE "pending"

Tally(p, class) == [p EXCEPT ![class] = @ + 1]

NPolls(p) == p.net + p.nonok + p.bad + p.pending + p.failed + p.completed

\* mutant: a transport error ends the polling at once
onTransportError_returns(j, retries) ==
    [act |-> "fail", stage |-> "timeout",
     log |-> "Error sending request to poll run status on last retry"]

\* lines 806-813: httpClient.Do failed
onTransportError(j, retries) ==
    IF j = retries
    THEN [act |-> "fail", stage |-> "timeout",
          log |-> "Error sending request to poll run status on last retry"]
    ELSE [act |-> "retry", stage |-> "", log |-> ""]

\* mutant: "failed" has no case of its own and is polled again
onRunStatus_failedPollsOn(status) ==
    IF status = "completed"
    THEN [act |-> "fetch", stage |-> "", log |-> ""]
    ELSE [act |-> "retry", stage |-> "", log |-> ""]

\* mutant: every status that ends the run makes the caller fetch the messages
onRunStatus_anyEndFetches(status) ==
    IF status \in {"failed", "completed"}
    THEN [act |-> "fetch", stage |-> "", log |-> ""]
    ELSE [act |-> "retry", stage |-> "", log |-> ""]

\* lines 841-849: switch pollResp.Status
onRunStatus(status) ==
    IF status = "failed" THEN
        [act |-> "fail", stage |-> "failed", log |-> "OpenAI run failed with status"]
    ELSE IF status = "completed" THEN
        [act |-> "fetch", stage |-> "", log |-> ""]
    ELSE [act |-> "retry", stage |-> "", log |-> ""]

\* One iteration, from the answer to GET /v1/threads/{id}/runs/{runId}:
\*   act   "retry" (sleep and continue), "fail" (return ""), "fetch"
\*         (return GetLastMessage())
\*   log   the line logged, "" for none
pollIteration(r, j, retries) ==
    IF r.kind = "neterr" THEN onTransportError(j, retries)
    ELSE IF r.kind = "readerr" THEN
        [act |-> "retry", stage |-> "",
         log |-> "Failed to read response body for polling run status"]
    ELSE IF ~isOK(r.code) THEN
        [act |-> "retry", stage |-> "",
         log |-> IF ~r.body.json
                 THEN "Non-OK status, but failed to unmarshal error response for poll run"
                 ELSE "Poll thread failed with status"]
    ELSE IF ~r.body.json THEN
        [act |-> "retry", stage |-> "",
         log |-> "Failed to unmarshal poll run response"]
    ELSE onRunStatus(r.body.status)

\* lines 729-731: an empty response from the poller is an error
pollError == "failed to get reply from thread after polling"

\* mutant: what the poller returns is handed on unchecked
replyError_never(reply) == NoErr

\* lines 727-732: if response == ""
replyError(reply) == IF reply = "" THEN pollError ELSE NoErr

pollThreadForReply(r) ==
    /\ pc = "poll"
    /\ LET it  == pollIteration(r, i, Retries)
           l1  == IF it.log = "" THEN logs ELSE logError(logs, it.log)
       IN
       /\ reqs' = Append(reqs, Req("poll", threadID, runID))
       /\ polls' = Tally(polls, AnswerClass(r))
       /\ CASE it.act = "fetch" ->
                 /\ pc' = "list"
                 /\ logs' = l1
                 /\ UNCHANGED <<i, waits, ret>>
            [] it.act = "fail" ->
                 /\ pc' = "ready"
                 /\ logs' = l1
                 /\ ret' = Ret("AddMessageToThread", "", pollError, it.stage)
                 /\ UNCHANGED <<i, waits>>
            [] it.act = "retry" ->
                 /\ waits' = waits + 1
                 /\ i' = i + 1
                 /\ IF loopContinues(i + 1, Retries)
                    THEN /\ pc' = "poll"
                         /\ logs' = l1
                         /\ UNCHANGED ret
                    ELSE /\ pc' = "ready"
                         /\ logs' = logError(l1, "Polling for thread reply timed out after maximum retries.")
                         /\ ret' = Ret("AddMessageToThread", "", pollError, "timeout")
    /\ UNCHANGED <<call, args, threadID, runID, assistantID, silenceErrors, resp,
                   newest, prev, ncalls, started>>

----------------------------------------------------------------------------
(* GetLastMessage, lines 857-904 *)

\* line 898: there is a message and its first content block is a text block
firstBlockIsText(data) ==
    Len(data) > 0 /\ Len(data[1].content) > 0 /\ data[1].content[1].type = "text"

\* mutant: when the newest message yields nothing, the one before it is read
lastMessageText_readsOlder(data) ==
    IF firstBlockIsText(data) THEN data[1].content[1].value
    ELSE IF Len(data) > 1 /\ Len(data[2].content) > 0 /\ data[2].content[1].type = "text"
    THEN data[2].content[1].value
    ELSE ""

\* lines 897-903: the text returned from a decoded list of messages
lastMessageText(data) ==
    IF firstBlockIsText(data) THEN data[1].content[1].value ELSE ""

\* what GetLastMessage returns and the line it logs; stage "fetch": the list
\* could not be had, "noreply": it holds no text to return
getLastMessageResult(r) ==
    IF r.kind = "neterr" THEN
        [reply |-> "", stage |-> "fetch", log |-> "Error sending request to get last message"]
    ELSE IF r.kind = "readerr" THEN
        [reply |-> "", stage |-> "fetch",
         log |-> "Failed to read response body for getting last message"]
    ELSE IF ~isOK(r.code) THEN
        [reply |-> "", stage |-> "fetch",
         log |-> IF ~r.body.json
                 THEN "Non-OK status, but failed to unmarshal error response for get last message"
                 ELSE "Get last message failed with status"]
    ELSE IF ~r.body.json THEN
        [reply |-> "", stage |-> "fetch", log |-> "Failed to unmarshal messages response"]
    ELSE IF firstBlockIsText(r.body.data) THEN
        \* the text is returned as it is, also when it is empty
        [reply |-> lastMessageText(r.body.data),
         stage |-> IF lastMessageText(r.body.data) = "" THEN "noreply" ELSE "none",
         log |-> ""]
    ELSE [reply |-> lastMessageText(r.body.data), stage |-> "noreply",
          log |-> "No text content found in the last message or message structure is unexpected."]

\* GetLastMessage as called from pollThreadForReply (line 846), followed by
\* the return of AddMessageToThread (lines 729-732)
fetchReply(r) ==
    /\ pc = "list"
    /\ LET res == getLastMessageResult(r) IN
       /\ reqs' = Append(reqs, Req("list", threadID, ""))
       /\ newest' = Newest(r)
       /\ logs' = IF res.log = "" THEN logs ELSE logError(logs, res.log)
       /\ ret' = Ret("AddMessageToThread", res.reply, replyError(res.reply), res.stage)
    /\ pc' = "ready"
    /\ UNCHANGED <<call, args, threadID, runID, assistantID, silenceErrors, i, waits,
                   polls, resp, prev, ncalls, started>>

\* GetLastMessage called by the owner of the session
GetLastMessage(r) ==
    /\ pc = "ready"
    /\ ncalls < MaxCalls
    /\ ncalls' = ncalls + 1
    /\ call' = "GetLastMessage"
    /\ prev' = Outcome(ret)
    /\ LET res == getLastMessageResult(r) IN
       /\ reqs' = <<Req("list", threadID, "")>>
       /\ resp' = r
       /\ newest' = Newest(r)
       /\ logs' = IF res.log = "" THEN NoLogs ELSE logError(NoLogs, res.log)
       /\ ret' = Ret("GetLastMessage", res.reply, NoErr, res.stage)
    /\ i' = 0
    /\ waits' = 0
    /\ polls' = NoPolls
    /\ pc' = "ready"
    /\ args' = NoArgs
    /\ UNCHANGED <<threadID, runID, assistantID, silenceErrors, started>>

----------------------------------------------------------------------------
(* ParseEmailBody, src/unnamed/part_000 lines 25-145.                      *)
(*                                                                         *)
(* A body is a sequence of groups of bytes, and so is a decoded text; the  *)
(* empty string is <<>>.  Three groups are told apart by what the decoders *)
(* make of them:                                                           *)
(*   "Ym9i"   base64 for "bob"; printable text as it stands                *)
(*   "=3D!"   quoted-printable for "=!"; not base64                        *)
(*   "<BEL>"  a control byte: neither base64 nor quoted-printable          *)

MaxParts == 3      \* parts of a multipart message
MaxBody  == 2      \* groups in the body of a single-part message

Groups == {"Ym9i", "=3D!", "<BEL>"}

Base64Table == "Ym9i" :> "bob"
QPTable     == ("Ym9i" :> "Ym9i") @@ ("=3D!" :> "=!")

\* io.ReadAll(base64.NewDecoder(...)): the bytes decoded before the first
\* group that is not base64, and whether the input was decoded to its end
RECURSIVE base64Decode(_)
base64Decode(b) ==
    IF b = <<>> THEN [bytes |-> <<>>, ok |-> TRUE]
    ELSE IF Head(b) \notin DOMAIN Base64Table THEN [bytes |-> <<>>, ok |-> FALSE]
    ELSE LET rest == base64Decode(Tail(b))
         IN  [bytes |-> <<Base64Table[Head(b)]>> \o rest.bytes, ok |-> rest.ok]

\* io.ReadAll(quotedprintable.NewReader(...))
RECURSIVE qpDecode(_)
qpDecode(b) ==
    IF b = <<>> THEN [bytes |-> <<>>, ok |-> TRUE]
    ELSE IF Head(b) \notin DOMAIN QPTable THEN [bytes |-> <<>>, ok |-> FALSE]
    ELSE LET rest == qpDecode(Tail(b))
         IN  [bytes |-> <<QPTable[Head(b)]>> \o rest.bytes, ok |-> rest.ok]

\* strings.ToLower on the transfer encodings that occur
ToLower(s) == IF s = "BASE64" THEN "base64" ELSE s

\* Content-Type headers and what mime.ParseMediaType makes of them; the
\* absent header ("") and a parameter without a value are errors
MediaTypeOf ==
    ("text/plain" :> "text/plain") @@ ("Text/HTML; charset=utf-8" :> "text/html")
        @@ ("application/pdf" :> "application/pdf") @@ ("image/png" :> "image/png")
        @@ ("text/plain-bas" :> "text/plain-bas")
        @@ ("multipart/mixed; boundary=b" :> "multipart/mixed")
BadContentTypes == {"", "text/plain; charset"}
ParseMediaType(h) ==
    IF h \in DOMAIN MediaTypeOf
    THEN [mediaType |-> MediaTypeOf[h], err |-> FALSE]
    ELSE [mediaType |-> "", err |-> TRUE]

\* strings.HasPrefix on the media types and prefixes that occur: s begins
\* with prefix, be it the whole of s or not
HasPrefix(s, prefix) ==
    <<s, prefix>> \in {<<"text/plain", "text/plain">>, <<"text/html", "text/html">>,
                       <<"text/plain-bas", "text/plain">>,
                       <<"application/pdf", "application/">>,
                       <<"multipart/mixed", "multipart/">>}

\* One part of a multipart message, as it stands in the message: its
\* Content-Type and Content-Transfer-Encoding headers, its body, and whether
\* the body can be read to its end
Part(ctype, cte, body, readable) ==
    [ctype |-> ctype, cte |-> cte, body |-> body, readable |-> readable]

\* A raw message.  framed: mail.ReadMessage can read it; end: what NextPart
\* returns after the last part, io.EOF ("eof") or another error ("err")
Mail(framed, ctype, cte, body, readable, parts, end) ==
    [framed |-> framed, ctype |-> ctype, cte |-> cte, body |-> body,
     readable |-> readable, parts |-> parts, end |-> end,
     to |-> "to@x", from |-> "from@x", subject |-> "hello"]

Multipart == "multipart/mixed; boundary=b"

\* the parts that occur: every media type without a transfer encoding, the
\* text types under the encodings that decode, parts that do not decode, and
\* a part that cannot be read
PartContentTypes == {"text/plain", "Text/HTML; charset=utf-8", "application/pdf", "image/png",
                     "text/plain-bas", ""}
Parts ==
    {Part(ct, "", <<"Ym9i">>, TRUE) : ct \in PartContentTypes}
        \cup {Part("text/plain", cte, <<"Ym9i">>, TRUE) : cte \in {"base64", "quoted-printable", "8bit"}}
        \cup {Part("Text/HTML; charset=utf-8", "base64", <<"Ym9i">>, TRUE)}
        \cup {Part(ct, "base64", <<"<BEL>">>, TRUE) :
                ct \in {"text/plain", "Text/HTML; charset=utf-8", "application/pdf"}}
        \cup {Part(ct, "quoted-printable", <<"<BEL>">>, TRUE) : ct \in {"text/plain", "application/pdf"}}
        \cup {Part("text/plain", "", <<"Ym9i">>, FALSE)}

SingleContentTypes == {"text/plain", "Text/HTML; charset=utf-8", "application/pdf", "image/png",
                       "text/plain-bas"}
SingleEncodings    == {"", "base64", "BASE64", "quoted-printable", "8bit"}
Bodies             == SeqsUpTo(Groups, MaxBody)

Mails ==
    {Mail(FALSE, "text/plain", "", <<>>, TRUE, <<>>, "eof")}
        \cup {Mail(TRUE, ct, "quoted-printable", b, TRUE, <<>>, "eof") :
                ct \in BadContentTypes, b \in {<<"Ym9i">>, <<"<BEL>">>}}
        \cup {Mail(TRUE, ct, cte, b, TRUE, <<>>, "eof") :
                ct \in SingleContentTypes, cte \in SingleEncodings, b \in Bodies}
        \cup {Mail(TRUE, ct, "", <<"Ym9i">>, FALSE, <<>>, "eof") : ct \in SingleContentTypes}
        \cup {Mail(TRUE, Multipart, "", <<>>, TRUE, ps, end) :
                ps \in SeqsUpTo(Parts, MaxParts), end \in {"eof", "err"}}

\* *EmailContent
EmailContent(plain, html, e) ==
    [PlainText |-> plain, HTML |-> html, To |-> e.to, From |-> e.from, Subject |-> e.subject]

NoContent == [PlainText |-> <<>>, HTML |-> <<>>, To |-> "", From |-> "", Subject |-> ""]

\* what ParseEmailBody returns: (record, nil) or (nil, error); warnings
\* counts the lines it wrote with log.Printf
Parsed(content, warnings) == [ret |-> "ok", err |-> NoErr, content |-> content, warnings |-> warnings]
ParseError(err)           == [ret |-> "err", err |-> err, content |-> NoContent, warnings |-> 0]
NotParsed                 == [ret |-> "none", err |-> NoErr, content |-> NoContent, warnings |-> 0]
NoEmail                   == Mail(FALSE, "", "", <<>>, TRUE, <<>>, "eof")

\* line 45: NextPart hides a quoted-printable Content-Transfer-Encoding
\* header and decodes the body of the part while it is read
hidesEncoding(p) == ToLower(p.cte) = "quoted-printable"

\* line 59: io.ReadAll(p)
readPart(p) ==
    IF ~p.readable THEN [bytes |-> <<>>, ok |-> FALSE]
    ELSE IF hidesEncoding(p) THEN qpDecode(p.body)
    ELSE [bytes |-> p.body, ok |-> TRUE]

\* line 65: p.Header.Get("Content-Transfer-Encoding")
partEncoding(p) == IF hidesEncoding(p) THEN "" ELSE p.cte

\* mutant: a base64 failure in a part keeps what was decoded, as in a single-part message
onPartBase64_keepsPartial(d) ==
    [bytes |-> d.bytes, skip |-> FALSE, fatal |-> FALSE, warn |-> IF d.ok THEN 0 ELSE 1]

\* lines 70-74: a part that fails to decode as base64 is skipped
onPartBase64(d) ==
    [bytes |-> d.bytes, skip |-> ~d.ok, fatal |-> FALSE, warn |-> IF d.ok THEN 0 ELSE 1]

\* lines 65-84: the bytes of a part after its transfer encoding is undone
decodePart(cte, b) ==
    IF cte = "" THEN [bytes |-> b, skip |-> FALSE, fatal |-> FALSE, warn |-> 0]
    ELSE IF ToLower(cte) = "base64" THEN onPartBase64(base64Decode(b))
    ELSE IF ToLower(cte) = "quoted-printable" THEN
        LET d == qpDecode(b)
        IN  [bytes |-> d.bytes, skip |-> FALSE, fatal |-> ~d.ok, warn |-> 0]
    ELSE [bytes |-> b, skip |-> FALSE, fatal |-> FALSE, warn |-> 1]

\* lines 86-106: the decoded bytes go to the field of the media type
routePart(c, mediaType, bytes) ==
    IF HasPrefix(mediaType, "text/plain")
    THEN [content |-> [c EXCEPT !.PlainText = bytes], warn |-> 0]
    ELSE IF HasPrefix(mediaType, "text/html")
    THEN [content |-> [c EXCEPT !.HTML = bytes], warn |-> 0]
    ELSE [content |-> c, warn |-> 1]

\* mutant: a part without a usable Content-Type is taken for plain text
partMediaType_defaultsToPlain(p) ==
    IF ParseMediaType(p.ctype).err THEN [mediaType |-> "text/plain", err |-> FALSE]
    ELSE ParseMediaType(p.ctype)

\* line 53: mime.ParseMediaType(p.Header.Get("Content-Type"))
partMediaType(p) == ParseMediaType(p.ctype)

\* lines 53-106: one turn of the loop over the parts.  acc holds the record
\* built so far, the warnings logged and the error that ended the loop.
parsePart(acc, p) ==
    LET mt == partMediaType(p)
        rd == readPart(p)
        dc == decodePart(partEncoding(p), rd.bytes)
        rt == routePart(acc.content, mt.mediaType, dc.bytes)
    IN  IF mt.err THEN [acc EXCEPT !.warnings = @ + 1]
        ELSE IF ~rd.ok THEN [acc EXCEPT !.warnings = @ + 1]
        ELSE IF dc.skip THEN [acc EXCEPT !.warnings = @ + dc.warn]
        ELSE IF dc.fatal THEN [acc EXCEPT !.err = "failed to quoted-printable decode"]
        ELSE [acc EXCEPT !.content = rt.content, !.warnings = @ + dc.warn + rt.warn]

\* lines 44-107: the loop, from part k on
RECURSIVE parseParts(_, _, _)
parseParts(acc, e, k) ==
    IF acc.err # NoErr THEN acc
    ELSE IF k > Len(e.parts) THEN
        IF e.end = "eof" THEN acc
        ELSE [acc EXCEPT !.err = "failed to read multipart part"]
    ELSE parseParts(parsePart(acc, e.parts[k]), e, k + 1)

\* lines 114-132: the body of a single-part message after its transfer
\* encoding is undone; a base64 failure is logged and what was decoded
\* before it is used
decodeSingle(cte, b) ==
    IF cte = "" THEN [bytes |-> b, fatal |-> FALSE, warn |-> 0]
    ELSE IF ToLower(cte) = "base64" THEN
        LET d == base64Decode(b)
        IN  [bytes |-> d.bytes, fatal |-> FALSE, warn |-> IF d.ok THEN 0 ELSE 1]
    ELSE IF ToLower(cte) = "quoted-printable" THEN
        LET d == qpDecode(b)
        IN  [bytes |-> d.bytes, fatal |-> ~d.ok, warn |-> 0]
    ELSE [bytes |-> b, fatal |-> FALSE, warn |-> 1]

\* mutant: the body of a single-part message goes to both fields
routeSingle_both(c, mediaType, bytes) ==
    [content |-> [c EXCEPT !.PlainText = bytes, !.HTML = bytes], warn |-> 0]

\* lines 134-141
routeSingle(c, mediaType, bytes) ==
    IF HasPrefix(mediaType, "text/plain")
    THEN [content |-> [c EXCEPT !.PlainText = bytes], warn |-> 0]
    ELSE IF HasPrefix(mediaType, "text/html")
    THEN [content |-> [c EXCEPT !.HTML = bytes], warn |-> 0]
    ELSE [content |-> c, warn |-> 1]

\* lines 108-142
parseSingle(e, mediaType) ==
    IF ~e.readable THEN ParseError("failed to read single part email body")
    ELSE LET dc == decodeSingle(e.cte, e.body)
             rt == routeSingle(EmailContent(<<>>, <<>>, e), mediaType, dc.bytes)
         IN  IF dc.fatal THEN ParseError("failed to quoted-printable decode")
             ELSE Parsed(rt.content, dc.warn + rt.warn)

ParseEmailBody(e) ==
    IF ~e.framed THEN ParseError("failed to read email message")
    ELSE LET mt == ParseMediaType(e.ctype) IN
         IF mt.err THEN ParseError("failed to parse Content-Type header")
         ELSE IF HasPrefix(mt.mediaType, "multipart/") THEN
             LET acc == parseParts([content |-> EmailContent(<<>>, <<>>, e),
                                    warnings |-> 0, err |-> NoErr], e, 1)
             IN  IF acc.err # NoErr THEN ParseError(acc.err)
                 ELSE Parsed(acc.content, acc.warnings)
         ELSE parseSingle(e, mt.mediaType)

NoMail == email = NoEmail /\ parsed = NotParsed

\* a caller hands a message to ParseEmailBody
Parse ==
    /\ parsed = NotParsed
    /\ parsed' = ParseEmailBody(email)
    /\ UNCHANGED email

----------------------------------------------------------------------------
(* handleRequest, src/unnamed/part_001 lines 123-208.                      *)
(*                                                                         *)
(* The handler walks through the records of the batch.  For each it stands *)
(* at "loop" (the head of the loop), "fetch" (before s3Client.GetObject),  *)
(* "config" (before the environment is read), "assistant" (before          *)
(* NewAssistant) and "converse" (AddMessageToThread is called and runs as  *)
(* the session above); it ends at "done", by a return or, where the code   *)
(* calls log.Fatal, by the exit of the process.  events records what the   *)
(* handler did for which record: "get" the blob-store request, "decode"    *)
(* the call of ParseEmailBody, "new" the call of NewAssistant, "converse"  *)
(* the call of AddMessageToThread, "create", "post", "run", "poll", "list" *)
(* the HTTP requests of the session, "answered" the reply it logged.       *)

MaxRecords == 2    \* records in one notification batch

Keys    == {"", "msg"}
Batches == SeqsUpTo(Keys, MaxRecords)

\* os.Getenv gives "" for a variable that is not set
Envs == [ASSISTANT_PRODUCT_PICKER : {"", "asst_1"}, OPEN_AI_CREDENTIAL : {"", "sk"}]

\* what the blob store gives for a key: GetObject fails, the body cannot be
\* read to its end, or the raw message arrives
Blob(kind, m) == [kind |-> kind, mail |-> m]
HandlerMails ==
    {Mail(FALSE, "text/plain", "", <<>>, TRUE, <<>>, "eof"),
     Mail(TRUE, "text/plain", "", <<"Ym9i">>, TRUE, <<>>, "eof"),
     Mail(TRUE, Multipart, "", <<>>, TRUE,
          <<Part("Text/HTML; charset=utf-8", "", <<"Ym9i">>, TRUE)>>, "eof")}
Blobs == {Blob("geterr", NoEmail), Blob("readerr", NoEmail)}
            \cup {Blob("ok", m) : m \in HandlerMails}

\* the server names a thread after the record it is created for, and a run
\* likewise
ThreadIDs == [k \in 1..4 |-> <<"thread_1", "thread_2", "thread_3", "thread_4">>[k]]
FreshThread(k) == IF k \in DOMAIN ThreadIDs THEN ThreadIDs[k] ELSE "thread_n"
HandlerCreateResponses(k) ==
    {NetErr, Http(500, ErrJson), Http(StatusOK, ErrJson), Http(StatusOK, ThreadJson(FreshThread(k)))}
HandlerPostResponses == {NetErr, Http(StatusOK, Garbage)}
HandlerRunResponses(k) == {Http(500, ErrJson), Http(StatusOK, RunJson(FreshRun(k)))}
HandlerPollResponses ==
    {Http(StatusOK, PollJson(s)) : s \in {"in_progress", "failed", "completed"}}

Ev(k, op, t, r) == [rec |-> k, op |-> op, thread |-> t, run |-> r]

NoResult      == [kind |-> "none", err |-> NoErr, at |-> 0]
ReturnNil(k)  == [kind |-> "return", err |-> NoErr, at |-> k]
Return(e, k)  == [kind |-> "return", err |-> e, at |-> k]
\* log.Fatal, log.Fatalf: the line is logged and the process exits
Fatal(e, k)   == [kind |-> "exit", err |-> e, at |-> k]

NoHandler ==
    /\ batch = <<>>
    /\ env = [ASSISTANT_PRODUCT_PICKER |-> "", OPEN_AI_CREDENTIAL |-> ""]
    /\ rec = 0
    /\ hpc = "start"
    /\ events = <<>>
    /\ result = NoResult

\* the session and the message of a record do not outlive the turn of the
\* loop that declared them (lines 162, 190)
dropSession ==
    /\ pc' = "new"
    /\ call' = "none"
    /\ args' = NoArgs
    /\ threadID' = ""
    /\ runID' = ""
    /\ assistantID' = ""
    /\ silenceErrors' = FALSE
    /\ i' = 0
    /\ reqs' = <<>>
    /\ waits' = 0
    /\ logs' = NoLogs
    /\ polls' = NoPolls
    /\ resp' = NoRsp
    /\ newest' = NoNewest
    /\ ret' = NoRet
    /\ prev' = NoPrev
    /\ ncalls' = 0
    /\ started' = NoRun
    /\ email' = NoEmail
    /\ parsed' = NotParsed

\* lines 124-130: session.NewSession
newAWSSession(ok) ==
    /\ hpc = "start"
    /\ IF ok
       THEN /\ hpc' = "loop"
            /\ rec' = 1
            /\ UNCHANGED result
       ELSE /\ hpc' = "done"
            /\ result' = Return("failed to create AWS session", 0)
            /\ UNCHANGED rec
    /\ UNCHANGED <<batch, env, events, sessionVars, mailVars, pairVars>>

\* mutant: a record without a key is fetched like any other
skipsRecord_never(key) == FALSE

\* lines 141-144: a record without a key is logged and passed over
skipsRecord(key) == key = ""

\* lines 132-144 and 207: the head of the loop
nextRecord ==
    /\ hpc = "loop"
    /\ IF rec > Len(batch)
       THEN /\ hpc' = "done"
            /\ result' = ReturnNil(rec)
            /\ UNCHANGED rec
       ELSE IF skipsRecord(batch[rec])
       THEN /\ rec' = rec + 1
            /\ UNCHANGED <<hpc, result>>
       ELSE /\ hpc' = "fetch"
            /\ UNCHANGED <<rec, result>>
    /\ UNCHANGED <<batch, env, events, sessionVars, mailVars, pairVars>>

\* mutant: a record that cannot be fetched is passed over
onFetchError_continues(e, k) == [hpc |-> "loop", rec |-> k + 1, result |-> NoResult]

\* lines 152-154, 158-160, 164-166: the error is returned
onFetchError(e, k) == [hpc |-> "done", rec |-> k, result |-> Return(e, k)]

\* lines 146-166: GetObject, io.ReadAll and ParseEmailBody
fetchEmail(b) ==
    /\ hpc = "fetch"
    /\ LET msg == ParseEmailBody(b.mail)
           e   == IF b.kind = "geterr" THEN "failed to get object"
                  ELSE IF b.kind = "readerr" THEN "failed to read raw email from S3"
                  ELSE IF msg.ret = "err" THEN "parse email error"
                  ELSE NoErr
           to  == onFetchError(e, rec)
       IN  /\ events' = IF b.kind = "ok"
                        THEN events \o <<Ev(rec, "get", "", ""), Ev(rec, "decode", "", "")>>
                        ELSE Append(events, Ev(rec, "get", "", ""))
           /\ IF b.kind = "ok"
              THEN email' = b.mail /\ parsed' = msg
              ELSE UNCHANGED <<email, parsed>>
           /\ IF e = NoErr
              THEN /\ hpc' = "config"
                   /\ UNCHANGED <<rec, result>>
              ELSE /\ hpc' = to.hpc
                   /\ rec' = to.rec
                   /\ result' = to.result
    /\ UNCHANGED <<batch, env, sessionVars, pairVars>>

\* lines 608-614: GetOpenAICredential
GetOpenAICredential ==
    IF env.OPEN_AI_CREDENTIAL = ""
    THEN [key |-> "", err |-> "OPEN_AI_CREDENTIAL environment variable not set"]
    ELSE [key |-> env.OPEN_AI_CREDENTIAL, err |-> NoErr]

\* lines 175-183: the assistant id and the credential are read from the
\* environment
readConfig ==
    /\ hpc = "config"
    /\ IF env.ASSISTANT_PRODUCT_PICKER = "" THEN
          /\ hpc' = "done"
          /\ result' = Fatal("ASSISTANT_PRODUCT_PICKER environment variable not set", rec)
       ELSE IF GetOpenAICredential.err # NoErr THEN
          /\ hpc' = "done"
          /\ result' = Fatal("Failed to get OPEN_AI_CREDENTIAL", rec)
       ELSE
          /\ hpc' = "assistant"
          /\ UNCHANGED result
    /\ UNCHANGED <<batch, env, rec, events, sessionVars, mailVars, pairVars>>

\* mutant: every record goes on in one and the same thread
initialThreadID_fixed == "t_123"

\* line 184
initialThreadID == ""

\* lines 185-188
configOptions(tid) == IF tid # "" THEN RecallThreadID ELSE 0

\* lines 184-195: NewAssistant
createAssistant(r) ==
    /\ hpc = "assistant"
    /\ NewAssistant(configOptions(initialThreadID), initialThreadID, r)
    /\ events' = events \o <<Ev(rec, "new", "", "")>>
                    \o [k \in 1..Len(reqs') |-> Ev(rec, reqs'[k].op, reqs'[k].thread, reqs'[k].run)]
    /\ IF ret'.err # NoErr
       THEN /\ hpc' = "done"
            /\ result' = Fatal("Failed to initialize OpenAI Assistant", rec)
       ELSE /\ hpc' = "converse"
            /\ UNCHANGED result
    /\ UNCHANGED <<batch, env, rec, mailVars, pairVars>>

\* line 198: assistant.AddMessageToThread(msg.PlainText) is called
converse(r) ==
    /\ hpc = "converse"
    /\ call = "NewAssistant"
    /\ AddMessageToThread(r)
    /\ events' = events \o <<Ev(rec, "converse", "", "")>>
                    \o [k \in 1..Len(reqs') |-> Ev(rec, reqs'[k].op, reqs'[k].thread, reqs'[k].run)]
    /\ UNCHANGED <<batch, env, rec, hpc, result, mailVars, pairVars>>

\* line 198: the call goes on with the request that is due
converseStep(r) ==
    /\ hpc = "converse"
    /\ \/ runThread(r)
       \/ pollThreadForReply(r)
       \/ fetchReply(r)
    /\ events' = Append(events, Ev(rec, reqs'[Len(reqs')].op, reqs'[Len(reqs')].thread,
                                   reqs'[Len(reqs')].run))
    /\ UNCHANGED <<batch, env, rec, hpc, result, mailVars, pairVars>>

\* lines 199-205: the call has returned
afterConverse ==
    /\ hpc = "converse"
    /\ call = "AddMessageToThread"
    /\ pc = "ready"
    /\ IF ret.err # NoErr
       THEN /\ hpc' = "done"
            /\ result' = Fatal("Failed to get reply from assistant", rec)
            /\ UNCHANGED <<rec, events, sessionVars, mailVars>>
       ELSE /\ hpc' = "loop"
            /\ rec' = rec + 1
            /\ events' = Append(events, Ev(rec, "answered", "", ""))
            /\ dropSession
            /\ UNCHANGED result
    /\ UNCHANGED <<batch, env, pairVars>>

----------------------------------------------------------------------------
(* A session that converses: it is constructed and then asked for replies *)
NoPair == other = Unborn /\ turn = "lead" /\ input = NoInput

Init == InitSession /\ NoMail /\ NoPair /\ NoHandler

Next ==
    \/ \E opts \in 0..3, tid \in InitialThreadIDs, r \in CreateResponses :
          NewAssistant(opts, tid, r) /\ UNCHANGED <<mailVars, pairVars, handlerVars>>
    \/ \E r \in PostResponses : AddMessageToThread(r) /\ UNCHANGED <<mailVars, pairVars, handlerVars>>
    \/ \E r \in RunResponses(ncalls) : runThread(r) /\ UNCHANGED <<mailVars, pairVars, handlerVars>>
    \/ \E r \in PollResponses : pollThreadForReply(r) /\ UNCHANGED <<mailVars, pairVars, handlerVars>>
    \/ \E r \in ListResponses : fetchReply(r) /\ UNCHANGED <<mailVars, pairVars, handlerVars>>

Spec == Init /\ [][Next]_vars

(* A session whose newest message is read directly, outside any conversation *)
NextFetch ==
    \/ \E opts \in 0..3, tid \in InitialThreadIDs, r \in CreateResponses :
          NewAssistant(opts, tid, r) /\ UNCHANGED <<mailVars, pairVars, handlerVars>>
    \/ \E r \in ListResponses : GetLastMessage(r) /\ UNCHANGED <<mailVars, pairVars, handlerVars>>

SpecFetch == Init /\ [][NextFetch]_vars

(* A message is handed to ParseEmailBody *)
InitParse == InitSession /\ NoPair /\ NoHandler /\ email \in Mails /\ parsed = NotParsed

NextParse == Parse /\ UNCHANGED <<sessionVars, pairVars, handlerVars>>

SpecParse == InitParse /\ [][NextParse]_vars

(* A session whose thread and assistant are changed between its calls; the *)
(* server answers polls and list requests in one way of each kind          *)
NewThreadIDs == {"", "t_9"}
FewPollResponses ==
    {NetErr, Http(500, ErrJson)}
        \cup {Http(StatusOK, PollJson(s)) : s \in {"in_progress", "failed", "completed"}}
FewListResponses ==
    {NetErr, Http(StatusOK, ListJson(<<>>)),
     Http(StatusOK, ListJson(<<Message(<<TextBlock("ok")>>)>>))}

NextSession ==
    \/ \E opts \in 0..3, tid \in InitialThreadIDs, r \in CreateResponses :
          NewAssistant(opts, tid, r) /\ UNCHANGED <<mailVars, pairVars, handlerVars>>
    \/ \E r \in CreateResponses : ResetThread(r) /\ UNCHANGED <<mailVars, pairVars, handlerVars>>
    \/ \E tid \in NewThreadIDs : SetThreadID(tid) /\ UNCHANGED <<mailVars, pairVars, handlerVars>>
    \/ SetAssistantID("asst_2") /\ UNCHANGED <<mailVars, pairVars, handlerVars>>
    \/ \E r \in PostResponses : AddMessageToThread(r) /\ UNCHANGED <<mailVars, pairVars, handlerVars>>
    \/ \E r \in RunResponses(ncalls) : runThread(r) /\ UNCHANGED <<mailVars, pairVars, handlerVars>>
    \/ \E r \in FewPollResponses : pollThreadForReply(r) /\ UNCHANGED <<mailVars, pairVars, handlerVars>>
    \/ \E r \in FewListResponses : fetchReply(r) /\ UNCHANGED <<mailVars, pairVars, handlerVars>>
    \/ \E r \in FewListResponses : GetLastMessage(r) /\ UNCHANGED <<mailVars, pairVars, handlerVars>>

SpecSession == Init /\ [][NextSession]_vars

(* Two sessions in step.  They are constructed with the same arguments but *)
(* for the SilenceErrors bit, and every call and every answer of the       *)
(* server that one of them gets, the other gets too: the leading session   *)
(* takes a step, the sessions change places, and the following session     *)
(* takes the same step.                                                    *)
Session ==
    [pc |-> pc, call |-> call, args |-> args, threadID |-> threadID, runID |-> runID,
     assistantID |-> assistantID, silenceErrors |-> silenceErrors, i |-> i,
     reqs |-> reqs, waits |-> waits, logs |-> logs, polls |-> polls, resp |-> resp,
     newest |-> newest, ret |-> ret, prev |-> prev, ncalls |-> ncalls,
     started |-> started]

Took(op, opts, tid, r) == [op |-> op, opts |-> opts, tid |-> tid, r |-> r]

\* configOptions with the SilenceErrors bit the other way
OtherSilence(opts) == IF opts % 2 = 1 THEN opts - 1 ELSE opts + 1

Lead ==
    /\ turn = "lead"
    /\ turn' = "swap"
    /\ UNCHANGED <<other, mailVars, handlerVars>>
    /\ \/ \E opts \in 0..3, tid \in InitialThreadIDs, r \in CreateResponses :
            NewAssistant(opts, tid, r) /\ input' = Took("NewAssistant", opts, tid, r)
       \/ \E r \in CreateResponses :
            /\ ncalls < MaxPairCalls
            /\ ResetThread(r) /\ input' = Took("ResetThread", 0, "", r)
       \/ \E r \in PostResponses :
            /\ ncalls < MaxPairCalls
            /\ AddMessageToThread(r) /\ input' = Took("AddMessageToThread", 0, "", r)
       \/ \E r \in RunResponses(ncalls) :
            runThread(r) /\ input' = Took("runThread", 0, "", r)
       \/ \E r \in FewPollResponses :
            pollThreadForReply(r) /\ input' = Took("pollThreadForReply", 0, "", r)
       \/ \E r \in FewListResponses :
            fetchReply(r) /\ input' = Took("fetchReply", 0, "", r)
       \/ \E r \in FewListResponses :
            /\ ncalls < MaxPairCalls
            /\ GetLastMessage(r) /\ input' = Took("GetLastMessage", 0, "", r)

Swap ==
    /\ turn = "swap"
    /\ turn' = "follow"
    /\ other' = Session
    /\ pc' = other.pc
    /\ call' = other.call
    /\ args' = other.args
    /\ threadID' = other.threadID
    /\ runID' = other.runID
    /\ assistantID' = other.assistantID
    /\ silenceErrors' = other.silenceErrors
    /\ i' = other.i
    /\ reqs' = other.reqs
    /\ waits' = other.waits
    /\ logs' = other.logs
    /\ polls' = other.polls
    /\ resp' = other.resp
    /\ newest' = other.newest
    /\ ret' = other.ret
    /\ prev' = other.prev
    /\ ncalls' = other.ncalls
    /\ started' = other.started
    /\ UNCHANGED <<input, mailVars, handlerVars>>

Follow ==
    /\ turn = "follow"
    /\ turn' = "lead"
    /\ UNCHANGED <<other, input, mailVars, handlerVars>>
    /\ CASE input.op = "NewAssistant" ->
                NewAssistant(OtherSilence(input.opts), input.tid, input.r)
         [] input.op = "ResetThread" -> ResetThread(input.r)
         [] input.op = "AddMessageToThread" -> AddMessageToThread(input.r)
         [] input.op = "runThread" -> runThread(input.r)
         [] input.op = "pollThreadForReply" -> pollThreadForReply(input.r)
         [] input.op = "fetchReply" -> fetchReply(input.r)
         [] input.op = "GetLastMessage" -> GetLastMessage(input.r)

NextPair == Lead \/ Swap \/ Follow

SpecPair == Init /\ [][NextPair]_vars

(* One invocation of the handler on a batch of notifications *)
InitHandler ==
    /\ InitSession /\ NoMail /\ NoPair
    /\ batch \in Batches
    /\ env \in Envs
    /\ rec = 0
    /\ hpc = "start"
    /\ events = <<>>
    /\ result = NoResult

NextHandler ==
    \/ \E ok \in BOOLEAN : newAWSSession(ok)
    \/ nextRecord
    \/ \E b \in Blobs : fetchEmail(b)
    \/ readConfig
    \/ \E r \in HandlerCreateResponses(rec) : createAssistant(r)
    \/ \E r \in HandlerPostResponses : converse(r)
    \/ \E r \in HandlerRunResponses(rec) : pc = "run" /\ converseStep(r)
    \/ \E r \in HandlerPollResponses : pc = "poll" /\ converseStep(r)
    \/ \E r \in FewListResponses : pc = "list" /\ converseStep(r)
    \/ afterConverse

SpecHandler == InitHandler /\ [][NextHandler]_vars

(* A session whose calls are carried on: every HTTP request a call makes   *)
(* returns (httpClient has a timeout of 30 seconds, line 583) and every    *)
(* time.Sleep ends, so a call that has a request due makes it.  Whether    *)
(* the owner of the session calls again is left open.                      *)
CallStep ==
    \/ \E r \in RunResponses(ncalls) : runThread(r) /\ UNCHANGED <<mailVars, pairVars, handlerVars>>
    \/ \E r \in FewPollResponses : pollThreadForReply(r) /\ UNCHANGED <<mailVars, pairVars, handlerVars>>
    \/ \E r \in FewListResponses : fetchReply(r) /\ UNCHANGED <<mailVars, pairVars, handlerVars>>

NextCall ==
    \/ \E opts \in 0..3, tid \in InitialThreadIDs, r \in CreateResponses :
          NewAssistant(opts, tid, r) /\ UNCHANGED <<mailVars, pairVars, handlerVars>>
    \/ \E r \in PostResponses : AddMessageToThread(r) /\ UNCHANGED <<mailVars, pairVars, handlerVars>>
    \/ CallStep

SpecCall == Init /\ [][NextCall]_vars /\ WF_vars(CallStep)

----------------------------------------------------------------------------
(* Vocabulary of the properties *)

Converse     == call = "AddMessageToThread"
Returned     == pc \in {"ready", "nil"} /\ ret.op = call
Failed       == Returned /\ ret.err # NoErr /\ ret.reply = ""
LastReq      == reqs[Len(reqs)]

HasTextBlock(c) == TextIdx(c) # {}
\* the text of the first text-typed block of a content that has one
FirstText(c)    == c[FirstTextIdx(c)].value

\* the newest message of the list carries a text block
NewestHasText(r) ==
    ListFetched(r) /\ Len(r.body.data) > 0 /\ HasTextBlock(r.body.data[1].content)
NewestText(r) == FirstText(r.body.data[1].content)

RetryClasses == {"net", "nonok", "bad", "pending"}
AnsweredAs(c) == polls'[c] = polls[c] + 1

----------------------------------------------------------------------------
(* C1: when the post and the run start succeeded and a poll within the     *)
(* limit reported "completed" (the caller is about to fetch the reply),    *)
(* and the newest message of the thread carries a text block with          *)
(* non-empty text t, AddMessageToThread returns t and no error.            *)
C1_ConverseReturnsNewestText ==
    (Converse /\ Returned /\ Count("list") = 1 /\ newest.pos > 0 /\ newest.text # "")
        => (ret.reply = newest.text /\ ret.err = NoErr)

(* C2: once a poll was answered with status "failed" the call has returned *)
(* an error and that poll is its last request: no later poll, no           *)
(* list-messages request; "failed" on the first poll ends the call after   *)
(* exactly one poll.                                                       *)
C2_FailedRunEndsCall ==
    (Converse /\ polls.failed > 0) =>
        /\ Failed
        /\ polls.failed = 1
        /\ LastReq.op = "poll"
        /\ Count("poll") = NPolls(polls)
        /\ Count("list") = 0
        /\ (NPolls(polls) = 1 => Count("poll") = 1)

C2_Witness ==
    /\ Converse /\ Failed
    /\ polls.failed = 1 /\ NPolls(polls) = 1
    /\ reqs = <<Req("post", threadID, ""), Req("run", threadID, ""),
                Req("poll", threadID, runID)>>

(* C3, as stated: when every poll reports a non-terminal status, the call  *)
(* with a limit of N = Retries fails after exactly N polls and N waits.    *)
C3_TimeoutAfterNPolls ==
    (Converse /\ Returned /\ NPolls(polls) > 0 /\ polls.pending = NPolls(polls))
        => (Count("poll") = Retries /\ waits = Retries)

(* C3, amended: when every poll reports a non-terminal status, the call    *)
(* goes on polling until it has made exactly Retries + 1 polls and         *)
(* Retries + 1 waits, and then fails.                                      *)
C3_TimeoutAfterRetriesPlusOne ==
    (Converse /\ NPolls(polls) > 0 /\ polls.pending = NPolls(polls)) =>
        /\ Count("poll") = NPolls(polls)
        /\ waits = Count("poll")
        /\ Count("poll") <= Retries + 1
        /\ (Count("poll") <= Retries => pc = "poll")
        /\ (Count("poll") = Retries + 1 => Failed /\ ret.stage = "timeout")

C3_Witness ==
    /\ Converse /\ Failed /\ ret.stage = "timeout"
    /\ polls.pending = Retries + 1
    /\ Count("poll") = Retries + 1
    /\ waits = Retries + 1

(* C4: NewAssistant with the RecallThreadID option and a non-empty initial *)
(* thread id makes no request and returns a session on that thread; in     *)
(* every other case it makes exactly one request, a create-thread request. *)
C4_RecallMakesNoRequest ==
    call = "NewAssistant" =>
        IF args.opts \in {RecallThreadID, RecallThreadID + SilenceErrors} /\ args.tid # ""
        THEN /\ reqs = <<>>
             /\ pc = "ready"
             /\ ret.err = NoErr
             /\ threadID = args.tid
        ELSE reqs = <<Req("create", "", "")>>

C4_Witness ==
    /\ call = "NewAssistant"
    /\ args = [opts |-> RecallThreadID, tid |-> "t_123"]
    /\ reqs = <<>>
    /\ pc = "ready"
    /\ threadID = "t_123"

(* C5, as stated: a create-thread request that ends in a transport error,  *)
(* a non-2xx status or an undecodable body makes NewAssistant fail without *)
(* a session, and every 2xx answer with a decodable body is a success.     *)
C5_Every2xxIsSuccess ==
    (call = "NewAssistant" /\ Len(reqs) = 1) =>
        IF resp.kind = "http" /\ resp.code \in 200..299 /\ resp.body.json
        THEN pc = "ready" /\ ret.err = NoErr
        ELSE pc = "nil" /\ ret.err # NoErr /\ threadID = ""

(* C5, amended: a create-thread request that ends in a transport error, a  *)
(* status other than 200 (201 included) or an undecodable body makes       *)
(* NewAssistant fail without a session, and every answer with status 200   *)
(* and a decodable body is a success that stores the id of the answer.     *)
C5_Only200IsSuccess ==
    (call = "NewAssistant" /\ Len(reqs) = 1) =>
        IF resp.kind = "http" /\ resp.code = 200 /\ resp.body.json
        THEN pc = "ready" /\ ret.err = NoErr /\ threadID = resp.body.id
        ELSE pc = "nil" /\ ret.err # NoErr /\ threadID = ""

C5_Witness ==
    /\ call = "NewAssistant"
    /\ resp = Http(201, ThreadJson("t1"))
    /\ pc = "nil"
    /\ ret.err # NoErr
    /\ threadID = ""

(* C6: in one AddMessageToThread call the post and the start-run request   *)
(* are each issued at most once; a failed post ends the call with an error *)
(* and the post as its only request; a failed run start ends the call with *)
(* an error before any poll; a run is started only after the post.         *)
C6_PostAndRunNotRetried ==
    Converse =>
        /\ Count("post") <= 1
        /\ Count("run") <= 1
        /\ (Count("run") = 1 => reqs[1].op = "post" /\ reqs[2].op = "run")
        /\ (ret.stage = "post" => Failed /\ reqs = <<Req("post", threadID, "")>>)
        /\ (ret.stage = "run" =>
               Failed /\ reqs = <<Req("post", threadID, ""), Req("run", threadID, "")>>)

C6_Witness ==
    /\ Converse /\ Failed
    /\ ret.stage = "run"
    /\ prev.stage = "post"
    /\ reqs = <<Req("post", threadID, ""), Req("run", threadID, "")>>

(* C7: a poll that ends in a transport error or a status other than 200    *)
(* while attempts remain does not end the call: the poller waits once and  *)
(* polls again; a poll that then reports "completed" makes the caller      *)
(* fetch the messages, and the text that stands first in the newest one is *)
(* returned, however many polls failed before.                             *)
C7_FailedPollIsRetried ==
    /\ [][/\ ((pc = "poll" /\ (AnsweredAs("net") \/ AnsweredAs("nonok")) /\ i < Retries)
                => (pc' = "poll" /\ i' = i + 1 /\ waits' = waits + 1 /\ ret' = ret))
           /\ ((pc = "poll" /\ AnsweredAs("completed"))
                => (pc' = "list" /\ ret' = ret))]_vars
    /\ []((Converse /\ polls.completed > 0 /\ pc # "list") =>
            (/\ Returned
             /\ LastReq.op = "list"
             /\ Count("list") = 1
             /\ ((newest.pos = 1 /\ newest.text # "")
                    => (ret.reply = newest.text /\ ret.err = NoErr))))

C7_Witness ==
    /\ Converse /\ Returned
    /\ newest = [pos |-> 1, text |-> "ok"]
    /\ ret.reply = "ok" /\ ret.err = NoErr
    /\ polls.net >= 1 /\ polls.nonok >= 1
    /\ polls.completed = 1
    /\ Count("poll") = Retries + 1

(* C8: GetLastMessage returns the text of the first text-typed content     *)
(* block of the newest message, wherever that block stands among the       *)
(* blocks of the message.                                                  *)
C8_FirstTextBlockAnywhere ==
    (call = "GetLastMessage" /\ NewestHasText(resp)) => ret.reply = NewestText(resp)

(* C9: GetLastMessage returns the empty string, never a text, when the     *)
(* list is empty or its first message has no text-typed block, also when   *)
(* an older message of the list has one.                                   *)
C9_NoTextNoReply ==
    (call = "GetLastMessage" /\ ListFetched(resp)
        /\ (Len(resp.body.data) = 0 \/ ~HasTextBlock(resp.body.data[1].content)))
      => (ret.reply = "" /\ ret.stage = "noreply")

C9_Witness ==
    /\ call = "GetLastMessage"
    /\ resp = Http(200, ListJson(<<Message(<<ImageBlock>>), OlderMessage>>))
    /\ ret.reply = ""
    /\ ret.stage = "noreply"

(* C10: two AddMessageToThread calls that failed in different stages -     *)
(* post, run start, run reported "failed", poll timeout, no reply content  *)
(* - returned different errors.                                            *)
FailureStages == {"post", "run", "failed", "timeout", "noreply"}

C10_StagesDistinguishable ==
    (Converse /\ Failed /\ ret.stage \in FailureStages
        /\ prev.stage \in FailureStages /\ prev.stage # ret.stage)
      => prev.err # ret.err

(* C11: two sessions constructed alike but for the SilenceErrors option,   *)
(* which got the same calls and the same answers from the server, differ   *)
(* in nothing but that flag and the lines they logged: they issued the     *)
(* same requests, hold the same thread id and run id, stand at the same    *)
(* place and returned the same reply or error from NewAssistant,           *)
(* ResetThread, AddMessageToThread and GetLastMessage.                     *)
LogBlind(s) ==
    [s EXCEPT !.logs = NoLogs, !.silenceErrors = FALSE,
              !.args = [opts |-> s.args.opts \div 2, tid |-> s.args.tid]]

C11_SilenceOnlySilences ==
    (turn = "lead" /\ pc # "new") =>
        /\ silenceErrors # other.silenceErrors
        /\ LogBlind(Session) = LogBlind(other)

C11_Witness ==
    /\ turn = "lead"
    /\ Converse /\ Failed /\ ret.stage = "timeout"
    /\ silenceErrors /\ logs = 0
    /\ ~other.silenceErrors /\ other.logs = Retries + 2
    /\ other.ret = ret
    /\ other.reqs = reqs
    /\ other.threadID = threadID /\ other.runID = runID

C13_PollsOwnRun ==
    \A k \in 1..Len(reqs) :
        reqs[k].op = "poll" =>
            /\ started.by = ncalls
            /\ started.on = reqs[k].thread
            /\ started.id = reqs[k].run
            /\ k > 2 /\ reqs[2].op = "run"

C13_Witness ==
    /\ Converse /\ ncalls = 2
    /\ prev.stage = "timeout"
    /\ started = [by |-> 2, on |-> threadID, id |-> "run_2"]
    /\ Len(reqs) >= 3
    /\ reqs[3] = Req("poll", threadID, "run_2")

----------------------------------------------------------------------------
(* Vocabulary of the properties of ParseEmailBody *)

Done         == parsed.ret # "none"
TypeOf(h)    == IF h \in DOMAIN MediaTypeOf THEN MediaTypeOf[h] ELSE ""
IsMultipart  == email.framed /\ TypeOf(email.ctype) = "multipart/mixed"
IsSingle     == email.framed /\ TypeOf(email.ctype) \notin {"", "multipart/mixed"}
Encoding(x)  == IF x.cte \in {"base64", "BASE64"} THEN "base64"
                ELSE IF x.cte = "quoted-printable" THEN "quoted-printable"
                ELSE "none"
\* the body of a message or part decodes under the encoding it declares
Decodes(x)   == CASE Encoding(x) = "base64" -> base64Decode(x.body).ok
                  [] Encoding(x) = "quoted-printable" -> qpDecode(x.body).ok
                  [] OTHER -> TRUE
DecodedOf(x) == CASE Encoding(x) = "base64" -> base64Decode(x.body).bytes
                  [] Encoding(x) = "quoted-printable" -> qpDecode(x.body).bytes
                  [] OTHER -> x.body
Base64Fails(x) == Encoding(x) = "base64" /\ ~base64Decode(x.body).ok
QPFails(x)     == Encoding(x) = "quoted-printable" /\ ~qpDecode(x.body).ok

PartsOfType(mt) == {k \in 1..Len(email.parts) : TypeOf(email.parts[k].ctype) = mt}
\* parts of a media type that are neither unreadable nor undecodable
KeptOfType(mt)  == {k \in PartsOfType(mt) : email.parts[k].readable /\ Decodes(email.parts[k])}
LastOf(S)       == CHOOSE k \in S : \A m \in S : m <= k
LastDecoded(mt) == IF KeptOfType(mt) = {} THEN <<>>
                   ELSE DecodedOf(email.parts[LastOf(KeptOfType(mt))])

Without(e, k)   == [e EXCEPT !.parts = SubSeq(@, 1, k - 1) \o SubSeq(@, k + 1, Len(@))]
Swapped(e, a, b) == [e EXCEPT !.parts = [@ EXCEPT ![a] = e.parts[b], ![b] = e.parts[a]]]
SameOutcome(x, y) == x.ret = y.ret /\ x.err = y.err /\ x.content = y.content

----------------------------------------------------------------------------
(* C14, as stated: for every well-formed single-part message whose         *)
(* Content-Type is text/plain (its body is readable and decodes under the  *)
(* transfer encoding it declares), ParseEmailBody returns PlainText equal  *)
(* to the exact body bytes and HTML empty.                                 *)
C14_PlainTextIsExactBody ==
    (Done /\ IsSingle /\ TypeOf(email.ctype) = "text/plain" /\ email.readable /\ Decodes(email))
        => (parsed.ret = "ok" /\ parsed.content.PlainText = email.body
                /\ parsed.content.HTML = <<>>)

(* C14, amended: for every such message ParseEmailBody returns a record    *)
(* with HTML empty; PlainText is the exact body bytes when the message     *)
(* declares no transfer encoding or one other than base64 and              *)
(* quoted-printable, and the decoded body when it declares one of these.   *)
C14_PlainTextIsBodyUnlessEncoded ==
    (Done /\ IsSingle /\ TypeOf(email.ctype) = "text/plain" /\ email.readable /\ Decodes(email))
        => /\ parsed.ret = "ok"
           /\ parsed.content.HTML = <<>>
           /\ (Encoding(email) = "none" => parsed.content.PlainText = email.body)
           /\ (Encoding(email) # "none" => parsed.content.PlainText = DecodedOf(email))

C14_Witness ==
    /\ Done
    /\ email = Mail(TRUE, "text/plain", "", <<"Ym9i", "=3D!">>, TRUE, <<>>, "eof")
    /\ parsed.ret = "ok"
    /\ parsed.content.PlainText = <<"Ym9i", "=3D!">>
    /\ parsed.content.HTML = <<>>

C17_Base64FailureSkipsPart ==
    (Done /\ IsMultipart) =>
        \A k \in 1..Len(email.parts) :
            (TypeOf(email.parts[k].ctype) # "" /\ email.parts[k].readable
                /\ Base64Fails(email.parts[k]))
              => /\ SameOutcome(parsed, ParseEmailBody(Without(email, k)))
                 /\ (email.end = "eof" => parsed.ret = "ok")

C17_Witness ==
    /\ Done
    /\ email.parts = <<Part("text/plain", "", <<"Ym9i">>, TRUE),
                       Part("text/plain", "base64", <<"<BEL>">>, TRUE)>>
    /\ email.end = "eof"
    /\ parsed.ret = "ok"
    /\ parsed.content.PlainText = <<"Ym9i">>

(* C18: for a single-part message with Content-Transfer-Encoding base64    *)
(* whose body fails to decode, ParseEmailBody returns a record without     *)
(* error in which PlainText and HTML are both the empty string.            *)
C18_SingleBase64FailureIsEmpty ==
    (Done /\ IsSingle /\ email.readable /\ Base64Fails(email))
        => (parsed.ret = "ok" /\ parsed.content.PlainText = <<>>
                /\ parsed.content.HTML = <<>>)

(* C19: ParseEmailBody returns an error and no record for every multipart  *)
(* message holding a part that declares quoted-printable and does not      *)
(* decode, whatever the part's Content-Type and place, and for every       *)
(* single-part message that declares quoted-printable and does not decode. *)
C19_QPFailureIsFatal ==
    (Done /\ email.framed
        /\ (IF IsMultipart THEN \E k \in 1..Len(email.parts) : QPFails(email.parts[k])
            ELSE QPFails(email)))
      => (parsed.ret = "err" /\ parsed.content = NoContent)

(* C20: a part of a multipart message whose Content-Type does not parse or *)
(* whose body cannot be read is skipped: the call returns what it returns  *)
(* for the message without that part; a message that cannot be read, or    *)
(* whose Content-Type is absent or does not parse, yields an error and no  *)
(* record.                                                                 *)
C20_BadPartSkippedBadMessageFatal ==
    Done =>
        /\ ((~email.framed \/ email.ctype \in BadContentTypes)
               => (parsed.ret = "err" /\ parsed.content = NoContent))
        /\ (IsMultipart =>
               \A k \in 1..Len(email.parts) :
                   (email.parts[k].ctype \in BadContentTypes
                        \/ ~email.parts[k].readable \/ QPFails(email.parts[k]))
                     => SameOutcome(parsed, ParseEmailBody(Without(email, k))))

C20_Witness ==
    /\ Done
    /\ email.parts = <<Part("", "", <<"Ym9i">>, TRUE),
                       Part("text/plain", "", <<"Ym9i">>, FALSE)>>
    /\ email.end = "eof"
    /\ parsed.ret = "ok"
    /\ parsed.content.PlainText = <<>>

----------------------------------------------------------------------------
(* Vocabulary of the properties of handleRequest *)

Did(k, op)   == Cardinality({n \in 1..Len(events) : events[n].rec = k /\ events[n].op = op})
Touched(k)   == \E n \in 1..Len(events) : events[n].rec = k
Answered(k)  == Did(k, "answered") = 1
Processed(k) == Did(k, "get") = 1 /\ Did(k, "decode") = 1 /\ Answered(k)
WithKey      == {k \in 1..Len(batch) : batch[k] # ""}
Ended        == hpc = "done"
Succeeded    == Ended /\ result.kind = "return" /\ result.err = NoErr
EndedInError == Ended /\ result.err # NoErr
RequestOps   == {"create", "post", "run", "poll", "list"}
ConfigErrors == {"ASSISTANT_PRODUCT_PICKER environment variable not set",
                 "Failed to get OPEN_AI_CREDENTIAL"}
RecordErrors == {"failed to get object", "failed to read raw email from S3",
                 "parse email error", "Failed to initialize OpenAI Assistant",
                 "Failed to get reply from assistant"} \cup ConfigErrors
ConfigMissing == env.ASSISTANT_PRODUCT_PICKER = "" \/ env.OPEN_AI_CREDENTIAL = ""

(* C21: a record with an empty message key is skipped without failing the  *)
(* batch: at the head of the loop the handler passes on to the next record *)
(* and does nothing else, no blob-store, decode or conversation request is *)
(* ever made for such a record, and a handler that has entered the loop    *)
(* and answered every record that has a key ends in success.               *)
C21_EmptyKeySkipped ==
    /\ [][(hpc = "loop" /\ rec <= Len(batch) /\ batch[rec] = "")
            => (hpc' = "loop" /\ rec' = rec + 1 /\ events' = events /\ result' = result)]_vars
    /\ [](\A k \in 1..Len(batch) : batch[k] = "" => ~Touched(k))
    /\ []((Ended /\ result.at > 0 /\ \A k \in WithKey : Answered(k)) => Succeeded)

C21_Witness ==
    /\ batch = <<"", "msg">>
    /\ Succeeded
    /\ ~Touched(1)
    /\ Processed(2)

(* C22: when the assistant id or the API credential is absent from the     *)
(* environment, no record is ever fetched or decoded and an invocation     *)
(* that got its AWS session ends in a fatal configuration error, whatever  *)
(* the batch holds.                                                        *)
C22_MissingConfigFatalBeforeRecords ==
    ConfigMissing =>
        /\ events = <<>>
        /\ ((Ended /\ result.err # "failed to create AWS session")
               => (result.kind = "exit" /\ result.err \in ConfigErrors))

(* C23: the handler ends in success only if every record with a key was    *)
(* fetched, decoded and answered; otherwise it ends in an error, which is  *)
(* the failure of the first record in order that was not answered, every   *)
(* record with a key before it was fetched, decoded and answered, and      *)
(* nothing was done for any record after it.                               *)
C23_SuccessOrFirstError ==
    Ended =>
        /\ (Succeeded => \A k \in WithKey : Processed(k))
        /\ ((\E k \in WithKey : ~Processed(k)) => EndedInError)
        /\ ((EndedInError /\ result.at > 0) =>
               /\ result.err \in RecordErrors
               /\ result.at \in WithKey
               /\ ~Answered(result.at)
               /\ \A k \in WithKey : k < result.at => Processed(k)
               /\ \A k \in 1..Len(batch) : k > result.at => ~Touched(k))

C23_Witness ==
    /\ batch = <<"msg", "msg">>
    /\ EndedInError
    /\ result = Return("parse email error", 2)
    /\ Processed(1)
    /\ Did(2, "get") = 1 /\ Did(2, "decode") = 1 /\ ~Answered(2)

(* C27: the records are worked one after another, each with a session of   *)
(* its own: for a record NewAssistant is called at most once and makes     *)
(* exactly one create-thread request, AddMessageToThread is called at most *)
(* once, and exactly once for a record that was answered or whose session  *)
(* was constructed and whose work is over; the session of a record starts  *)
(* without a thread id and a run id, and its requests go to the thread and *)
(* the run the server made for this record; every step taken for a record *)
(* comes after the last step of the record before it.                      *)
C27_OneSessionPerRecord ==
    /\ \A k \in 1..Len(batch) :
          /\ Did(k, "new") <= 1
          /\ Did(k, "create") = Did(k, "new")
          /\ Did(k, "converse") <= Did(k, "new")
          /\ (Answered(k) => Did(k, "new") = 1 /\ Did(k, "converse") = 1)
          /\ ((Ended /\ Did(k, "new") = 1
                  /\ result.err # "Failed to initialize OpenAI Assistant")
                => Did(k, "converse") = 1)
    /\ (hpc = "assistant" => threadID = "" /\ runID = "" /\ reqs = <<>>)
    /\ \A n \in 1..Len(events) :
          /\ (events[n].op \in {"post", "run", "poll", "list"}
                => events[n].thread = FreshThread(events[n].rec))
          /\ (events[n].op = "poll" => events[n].run = FreshRun(events[n].rec))
          /\ \A m \in 1..(n - 1) :
                /\ events[m].rec <= events[n].rec
                /\ (events[m].rec < events[n].rec =>
                       \E a \in m..(n - 1) :
                           events[a].rec = events[m].rec /\ events[a].op = "answered")

C27_Witness ==
    /\ batch = <<"msg", "msg">>
    /\ Succeeded
    /\ Processed(1) /\ Processed(2)
    /\ Did(1, "create") = 1 /\ Did(2, "create") = 1
    /\ \E n \in 1..Len(events) : events[n] = Ev(1, "poll", "thread_1", "run_1")
    /\ \E n \in 1..Len(events) : events[n] = Ev(2, "poll", "thread_2", "run_2")

----------------------------------------------------------------------------
(* C24: in every AddMessageToThread call the requests are, in this order,  *)
(* one post, one start-run, any number of polls and at most one            *)
(* list-messages request, which is the last request of the call.  The run  *)
(* is started only when the post did not fail, polls are made only for a   *)
(* run that the server started in this call, and the list-messages request *)
(* is made only when the poll before it reported "completed", the only     *)
(* poll of the call that did.                                              *)
C24_RequestOrder ==
    Converse =>
        /\ \A k \in 1..Len(reqs) :
              /\ (k = 1 => reqs[k].op = "post")
              /\ (k = 2 => reqs[k].op = "run")
              /\ (k > 2 => reqs[k].op \in {"poll", "list"})
              /\ (reqs[k].op = "list" => k = Len(reqs) /\ k > 3 /\ reqs[k - 1].op = "poll")
        /\ (Len(reqs) >= 2 => ret.stage # "post")
        /\ (Len(reqs) >= 3 => ret.stage # "run" /\ started.by = ncalls /\ started.id = runID)
        /\ (pc = "run" <=> (Len(reqs) = 1 /\ ret = NoRet))
        /\ (pc = "list" <=> (polls.completed = 1 /\ LastReq.op = "poll"))
        /\ (Count("list") = 1 <=> (polls.completed = 1 /\ LastReq.op = "list"))
        /\ polls.completed <= 1
        /\ Count("poll") = NPolls(polls)
        /\ (polls.completed = 1 => polls.failed = 0)

C24_Witness ==
    /\ Converse /\ Returned
    /\ Len(reqs) = 5
    /\ reqs[1].op = "post" /\ reqs[2].op = "run" /\ reqs[3].op = "poll"
    /\ reqs[4].op = "poll" /\ reqs[5].op = "list"
    /\ polls.pending = 1 /\ polls.completed = 1

(* C25: a step of AddMessageToThread, whatever its outcome, leaves the     *)
(* thread id and the assistant id of the session as they were; every       *)
(* request of the call goes to the thread id the session holds; and a      *)
(* session that holds a thread id accepts AddMessageToThread after any     *)
(* earlier call and posts to that thread.                                  *)
C25_SessionReusable ==
    /\ [][call' = "AddMessageToThread"
            => (threadID' = threadID /\ assistantID' = assistantID)]_vars
    /\ [][(pc = "ready" /\ threadID # "" /\ call' = "AddMessageToThread")
            => reqs' = <<Req("post", threadID, "")>>]_vars
    /\ [](Converse => \A k \in 1..Len(reqs) : reqs[k].thread = threadID)

C25_Witness ==
    /\ Converse /\ ncalls = 2
    /\ prev.stage = "timeout"
    /\ threadID = "t1" /\ assistantID = "asst_1"
    /\ Returned /\ ret.reply = "ok" /\ ret.err = NoErr
    /\ \A k \in 1..Len(reqs) : reqs[k].thread = "t1"

(* C26: AddMessageToThread called on a session whose thread id is empty    *)
(* returns an error and no reply, makes no request and logs nothing, and   *)
(* leaves the thread id, the run id, the assistant id and the logging      *)
(* option of the session as they were.                                     *)
C26_UninitialisedRefused ==
    [][(pc = "ready" /\ threadID = "" /\ call' = "AddMessageToThread")
         => /\ reqs' = <<>>
            /\ pc' = "ready"
            /\ ret'.op = "AddMessageToThread" /\ ret'.err # NoErr /\ ret'.reply = ""
            /\ logs' = NoLogs
            /\ threadID' = threadID /\ runID' = runID
            /\ assistantID' = assistantID /\ silenceErrors' = silenceErrors
            /\ started' = started]_vars

C26_Witness ==
    /\ Converse /\ Failed /\ ncalls = 2
    /\ ret.err = "thread not initialized"
    /\ threadID = ""
    /\ reqs = <<>>
    /\ args = NoArgs

----------------------------------------------------------------------------
\* the media types that occur and are neither text/plain nor text/html
NonText == {"application/pdf", "image/png", "text/plain-bas"}

----------------------------------------------------------------------------
(* C29: whenever NewAssistant returns a session and no error, the thread   *)
(* id of the session is not empty, whatever the server answered to the     *)
(* create-thread request.                                                  *)
C29_NewSessionHasThread ==
    (call = "NewAssistant" /\ pc = "ready" /\ ret.err = NoErr) => threadID # ""

(* C30: a call of AddMessageToThread that has returned gave either a       *)
(* non-empty reply and no error or an error and an empty reply; when the   *)
(* run completed and the text that stands first in the newest message is   *)
(* the empty string, the call returned an error.                           *)
C30_NoEmptyReplyWithoutError ==
    (Converse /\ Returned) =>
        /\ (ret.err = NoErr <=> ret.reply # "")
        /\ ((Count("list") = 1 /\ newest = [pos |-> 1, text |-> ""])
               => (ret.err # NoErr /\ ret.reply = ""))

C30_Witness ==
    /\ Converse /\ Returned
    /\ polls.completed = 1
    /\ Count("list") = 1
    /\ newest = [pos |-> 1, text |-> ""]
    /\ ret = Ret("AddMessageToThread", "", pollError, "noreply")

----------------------------------------------------------------------------
(* C31: every call of AddMessageToThread whose requests return comes to an *)
(* end: a call that is under way has made at most one post, one start-run, *)
(* Retries + 1 polls and one list-messages request, whatever the server    *)
(* answered, and it leads to the return of the call with a reply or an     *)
(* error.                                                                  *)
InCall == pc \in {"run", "poll", "list"}

C31_CallTerminates ==
    /\ [](Converse =>
            /\ Count("post") <= 1
            /\ Count("run") <= 1
            /\ Count("poll") <= Retries + 1
            /\ Count("list") <= 1
            /\ Len(reqs) <= Retries + 4
            /\ i <= Retries + 1)
    /\ (InCall ~> (Converse /\ Returned /\ (ret.reply # "" \/ ret.err # NoErr)))

C31_Witness ==
    /\ Converse /\ Returned
    /\ polls.pending = Retries /\ polls.completed = 1
    /\ Count("post") = 1 /\ Count("run") = 1
    /\ Count("poll") = Retries + 1 /\ Count("list") = 1
    /\ Len(reqs) = Retries + 4

(* C32: ResetThread makes one create-thread request.  When the request     *)
(* fails (transport error, unreadable body, status other than 200,         *)
(* undecodable body) it returns an error and the thread id keeps its       *)
(* value, and an AddMessageToThread that follows on a session with a       *)
(* thread id posts to that thread; when it succeeds the thread id is the   *)
(* id of the answer.  In both cases the assistant id, the run id and the   *)
(* logging option are as before.                                           *)
C32_ResetKeepsThreadOnFailure ==
    /\ [][(pc = "ready" /\ call' = "ResetThread" /\ ncalls' = ncalls + 1) =>
            /\ reqs' = <<Req("create", "", "")>>
            /\ pc' = "ready"
            /\ assistantID' = assistantID /\ runID' = runID
            /\ silenceErrors' = silenceErrors
            /\ (ret'.err = NoErr <=> RunStarted(resp'))
            /\ IF ret'.err = NoErr
               THEN threadID' = resp'.body.id
               ELSE threadID' = threadID]_vars
    /\ [][(call = "ResetThread" /\ ret.err # NoErr /\ threadID # ""
              /\ call' = "AddMessageToThread")
            => reqs' = <<Req("post", threadID, "")>>]_vars

C32_Witness ==
    /\ call = "ResetThread" /\ Returned
    /\ resp = Http(500, ErrJson)
    /\ ret.err # NoErr
    /\ threadID = "t_123"
    /\ assistantID = "asst_1"

====
